---- MODULE Spec2Model ----
(***************************************************************************)
(* Model of the YouTube MCP server: the identifier parser, the API client, *)
(* the response mappers and the five tool handlers of src/src/youtube.ts.  *)
(* Strings that the code parses are sequences of one-character strings.    *)
(***************************************************************************)
EXTENDS Integers, Sequences, FiniteSets, TLC

VARIABLES
    input,      \* the string handed to a parser function
    parsed,     \* what the parser function returned for it
    data,       \* the parsed JSON body handed to a response mapper
    mapped,     \* what the mapper returned or threw for it
    inv,        \* the handler invocations: arguments, position, payload
    requests,   \* every upstream GET issued, in order
    fetches,    \* every captions fetch issued, in order
    upstream,   \* the upstream's answer to each request seen so far
    captions,   \* the captions source's answer to each fetch seen so far
    env         \* the worker environment (YOUTUBE_API_KEY)

vars == <<input, parsed, data, mapped, inv, requests, fetches, upstream, captions, env>>

(***************************************************************************)
(* Bounds of the model.                                                    *)
(***************************************************************************)
MaxPad == 1        \* whitespace characters around a parser input, per side
MaxItems == 2      \* elements of an upstream items array
MaxInv == 2        \* handler invocations in one behaviour

(***************************************************************************)
(* Characters and string helpers.                                          *)
(***************************************************************************)
Lower == {"a","b","c","d","e","f","g","h","i","j","k","l","m",
          "n","o","p","q","r","s","t","u","v","w","x","y","z"}
Upper == {"A","B","C","D","E","F","G","H","I","J","K","L","M",
          "N","O","P","Q","R","S","T","U","V","W","X","Y","Z"}
Digit == {"0","1","2","3","4","5","6","7","8","9"}

\* [a-zA-Z0-9_-]
IdAlphabet == Lower \cup Upper \cup Digit \cup {"_", "-"}
\* [a-zA-Z0-9_.-]
HandleAlphabet == IdAlphabet \cup {"."}
\* what String.prototype.trim strips, as far as the inputs contain it
WhiteSpace == {" ", "\t", "\n"}
\* what the regular expression "." does not match
LineTerminator == {"\n", "\r"}

IdLen == 11
ChannelIdLen == 24

Min(S) == CHOOSE x \in S : \A y \in S : x <= y
Max(S) == CHOOSE x \in S : \A y \in S : x >= y

\* the literal lit occurs in s at position i
StartsAt(s, i, lit) ==
    /\ i >= 1
    /\ i + Len(lit) - 1 <= Len(s)
    /\ \A k \in 1..Len(lit) : s[i + k - 1] = lit[k]

\* s[i..i+n-1] exists and lies in the character class
ClassRun(s, i, n, class) ==
    /\ i >= 1
    /\ i + n - 1 <= Len(s)
    /\ \A k \in i..(i + n - 1) : s[k] \in class

\* the longest run of class characters of s that starts at i (greedy +)
RunLen(s, i, class) ==
    Max({n \in 0..(Len(s) - i + 1) : ClassRun(s, i, n, class)})

\* String.prototype.trim
Trim(s) ==
    LET keep == {i \in 1..Len(s) : s[i] \notin WhiteSpace}
    IN  IF keep = {} THEN <<>> ELSE SubSeq(s, Min(keep), Max(keep))

\* null, and a present value v
Null == <<>>
Some(v) == <<v>>

LitWatch ==
    <<"y","o","u","t","u","b","e",".","c","o","m","/","w","a","t","c","h","?">>
LitVEq ==
    <<"v","=">>
LitYoutuBe ==
    <<"y","o","u","t","u",".","b","e","/">>
LitEmbed ==
    <<"y","o","u","t","u","b","e",".","c","o","m","/","e","m","b","e","d","/">>
LitShorts ==
    <<"y","o","u","t","u","b","e",".","c","o","m","/","s","h","o","r","t","s","/">>
LitLive ==
    <<"y","o","u","t","u","b","e",".","c","o","m","/","l","i","v","e","/">>
LitV ==
    <<"y","o","u","t","u","b","e",".","c","o","m","/","v","/">>
LitChannel ==
    <<"y","o","u","t","u","b","e",".","c","o","m","/","c","h","a","n","n","e","l","/">>
LitAt ==
    <<"y","o","u","t","u","b","e",".","c","o","m","/","@">>
LitUC ==
    <<"U","C">>

(***************************************************************************)
(* Identifier parser.                                                      *)
(***************************************************************************)
\* The pattern list with the /live/ pattern lost.
PatternsWithoutLive == <<
    [lit |-> LitWatch,   any |-> TRUE,  tail |-> LitVEq],
    [lit |-> LitYoutuBe, any |-> FALSE, tail |-> <<>>],
    [lit |-> LitEmbed,   any |-> FALSE, tail |-> <<>>],
    [lit |-> LitShorts,  any |-> FALSE, tail |-> <<>>],
    [lit |-> LitV,       any |-> FALSE, tail |-> <<>> ] >>

\* The pattern list reordered: /embed/ tried before youtu.be/.
PatternsEmbedFirst == <<
    [lit |-> LitWatch,   any |-> TRUE,  tail |-> LitVEq],
    [lit |-> LitEmbed,   any |-> FALSE, tail |-> <<>>],
    [lit |-> LitYoutuBe, any |-> FALSE, tail |-> <<>>],
    [lit |-> LitShorts,  any |-> FALSE, tail |-> <<>>],
    [lit |-> LitLive,    any |-> FALSE, tail |-> <<>>],
    [lit |-> LitV,       any |-> FALSE, tail |-> <<>> ] >>

\* The six regular expressions: a literal, optionally ".*" and a second
\* literal, then the captured group of IdLen characters of IdAlphabet.
VIDEO_ID_PATTERNS == <<
    [lit |-> LitWatch,   any |-> TRUE,  tail |-> LitVEq],
    [lit |-> LitYoutuBe, any |-> FALSE, tail |-> <<>>],
    [lit |-> LitEmbed,   any |-> FALSE, tail |-> <<>>],
    [lit |-> LitShorts,  any |-> FALSE, tail |-> <<>>],
    [lit |-> LitLive,    any |-> FALSE, tail |-> <<>>],
    [lit |-> LitV,       any |-> FALSE, tail |-> <<>> ] >>

\* Where the captured group starts when pattern p matches s from position i,
\* 0 when it does not match from there. ".*" is greedy and stops at a line
\* terminator.
CaptureAt(p, s, i) ==
    IF ~StartsAt(s, i, p.lit) THEN 0
    ELSE LET k == i + Len(p.lit)
         IN  IF ~p.any
             THEN IF ClassRun(s, k, IdLen, IdAlphabet) THEN k ELSE 0
             ELSE LET js == {j \in k..Len(s) :
                               /\ \A x \in k..(j - 1) : s[x] \notin LineTerminator
                               /\ StartsAt(s, j, p.tail)
                               /\ ClassRun(s, j + Len(p.tail), IdLen, IdAlphabet)}
                  IN  IF js = {} THEN 0 ELSE Max(js) + Len(p.tail)

\* String.prototype.match with an unanchored pattern: the leftmost match;
\* the result is match[1], or null.
PatternMatch(p, s) ==
    LET starts == {i \in 1..Len(s) : CaptureAt(p, s, i) # 0}
    IN  IF starts = {} THEN Null
        ELSE LET c == CaptureAt(p, s, Min(starts))
             IN  Some(SubSeq(s, c, c + IdLen - 1))

\* /^[a-zA-Z0-9_-]{11}$/.test(trimmed)
IsRawId(s) == Len(s) = IdLen /\ ClassRun(s, 1, IdLen, IdAlphabet)

RECURSIVE FirstPatternMatch(_, _, _)
FirstPatternMatch(patterns, s, k) ==
    IF k > Len(patterns) THEN Null
    ELSE LET m == PatternMatch(patterns[k], s)
         IN  IF m # Null THEN m ELSE FirstPatternMatch(patterns, s, k + 1)

extractVideoId(in) ==
    LET trimmed == Trim(in)
    IN  IF IsRawId(trimmed) THEN Some(trimmed)
        ELSE FirstPatternMatch(VIDEO_ID_PATTERNS, trimmed, 1)

\* trimmed.match(/lit([class]+)/): the leftmost match, longest run; match[1]
\* or null.
RunMatch(lit, class, s) ==
    LET starts == {i \in 1..Len(s) :
                     StartsAt(s, i, lit) /\ ClassRun(s, i + Len(lit), 1, class)}
    IN  IF starts = {} THEN Null
        ELSE LET c == Min(starts) + Len(lit)
             IN  Some(SubSeq(s, c, c + RunLen(s, c, class) - 1))

extractChannelIdentifier(in) ==
    LET trimmed == Trim(in)
        idMatch == RunMatch(LitChannel, IdAlphabet, trimmed)
        handleMatch == RunMatch(LitAt, HandleAlphabet, trimmed)
    IN  IF idMatch # Null THEN Some([type |-> "id", value |-> idMatch[1]])
        ELSE IF handleMatch # Null
        THEN Some([type |-> "handle", value |-> <<"@">> \o handleMatch[1]])
        ELSE IF StartsAt(trimmed, 1, <<"@">>)
        THEN Some([type |-> "handle", value |-> trimmed])
        ELSE IF StartsAt(trimmed, 1, LitUC) /\ Len(trimmed) = ChannelIdLen
        THEN Some([type |-> "id", value |-> trimmed])
        ELSE Some([type |-> "handle", value |-> trimmed])

(***************************************************************************)
(* Response mappers. A JSON object is a record; an absent property is a    *)
(* field outside its DOMAIN. A mapper returns a value or throws.           *)
(***************************************************************************)
Has(obj, f) == f \in DOMAIN obj
\* obj.f ?? d
Coalesce(obj, f, d) == IF Has(obj, f) THEN obj[f] ELSE d
\* obj with the fields outside keep removed
Restrict(obj, keep) == [f \in (DOMAIN obj) \cap keep |-> obj[f]]

\* a message is the sequence of the parts its template concatenates
Returned(v) == [threw |-> FALSE, value |-> v, message |-> <<>>]
Threw(m) == [threw |-> TRUE, value |-> <<>>, message |-> m]

\* !data.items?.length
NoItems(body) == ~Has(body, "items") \/ Len(body.items) = 0
\* data.items ?? []
ItemsOrEmpty(body) == Coalesce(body, "items", <<>>)

\* item.snippet.thumbnails?.high?.url ?? ""
ThumbnailUrl(snippet) ==
    IF ~Has(snippet, "thumbnails") THEN ""
    ELSE IF ~Has(snippet.thumbnails, "high") THEN ""
    ELSE Coalesce(snippet.thumbnails.high, "url", "")

\* reading a property of an absent object throws a TypeError
TypeErrorMessage == <<"Cannot read properties of undefined">>

\* the coalescing of likeCount lost: the property is read as it is
VideoDetailsLikeUncoalesced(body) ==
    IF NoItems(body) THEN Threw(<<"Video not found or is private.">>)
    ELSE LET item == body.items[1]
         IN  IF ~Has(item, "statistics") THEN Threw(TypeErrorMessage)
             ELSE Returned([
                title        |-> item.snippet.title,
                description  |-> item.snippet.description,
                channelTitle |-> item.snippet.channelTitle,
                channelId    |-> item.snippet.channelId,
                publishedAt  |-> item.snippet.publishedAt,
                viewCount    |-> Coalesce(item.statistics, "viewCount", "N/A"),
                likeCount    |-> Coalesce(item.statistics, "likeCount", "undefined"),
                commentCount |-> Coalesce(item.statistics, "commentCount", "N/A"),
                duration     |-> item.contentDetails.duration,
                tags         |-> Coalesce(item.snippet, "tags", <<>>),
                thumbnailUrl |-> ThumbnailUrl(item.snippet),
                categoryId   |-> item.snippet.categoryId ])

\* getVideoDetails after the fetch
VideoDetailsOf(body) ==
    IF NoItems(body) THEN Threw(<<"Video not found or is private.">>)
    ELSE LET item == body.items[1]
         IN  IF ~Has(item, "statistics") THEN Threw(TypeErrorMessage)
             ELSE Returned([
                title        |-> item.snippet.title,
                description  |-> item.snippet.description,
                channelTitle |-> item.snippet.channelTitle,
                channelId    |-> item.snippet.channelId,
                publishedAt  |-> item.snippet.publishedAt,
                viewCount    |-> Coalesce(item.statistics, "viewCount", "N/A"),
                likeCount    |-> Coalesce(item.statistics, "likeCount", "N/A"),
                commentCount |-> Coalesce(item.statistics, "commentCount", "N/A"),
                duration     |-> item.contentDetails.duration,
                tags         |-> Coalesce(item.snippet, "tags", <<>>),
                thumbnailUrl |-> ThumbnailUrl(item.snippet),
                categoryId   |-> item.snippet.categoryId ])

SearchResultOf(item) == [
    videoId      |-> item.id.videoId,
    title        |-> item.snippet.title,
    description  |-> item.snippet.description,
    channelTitle |-> item.snippet.channelTitle,
    publishedAt  |-> item.snippet.publishedAt,
    thumbnailUrl |-> ThumbnailUrl(item.snippet) ]

\* searchVideos with the not-found check of the other mappers
SearchResultsOrNotFound(body) ==
    IF NoItems(body) THEN Threw(<<"No videos found.">>)
    ELSE Returned([k \in 1..Len(body.items) |-> SearchResultOf(body.items[k])])

\* searchVideos after the fetch
SearchResultsOf(body) ==
    LET items == ItemsOrEmpty(body)
    IN  Returned([k \in 1..Len(items) |-> SearchResultOf(items[k])])

\* getChannelInfo after the fetch
ChannelInfoOf(body) ==
    IF NoItems(body) THEN Threw(<<"Channel not found.">>)
    ELSE LET item == body.items[1]
         IN  IF ~Has(item, "statistics") THEN Threw(TypeErrorMessage)
             ELSE Returned([
                id              |-> item.id,
                title           |-> item.snippet.title,
                description     |-> item.snippet.description,
                customUrl       |-> Coalesce(item.snippet, "customUrl", ""),
                publishedAt     |-> item.snippet.publishedAt,
                subscriberCount |-> Coalesce(item.statistics, "subscriberCount", "hidden"),
                videoCount      |-> Coalesce(item.statistics, "videoCount", "0"),
                viewCount       |-> Coalesce(item.statistics, "viewCount", "0"),
                thumbnailUrl    |-> ThumbnailUrl(item.snippet),
                country         |-> Coalesce(item.snippet, "country", "N/A") ])

CommentOf(item) ==
    LET top == item.snippet.topLevelComment.snippet
    IN  [author      |-> top.authorDisplayName,
         text        |-> top.textDisplay,
         likeCount   |-> top.likeCount,
         publishedAt |-> top.publishedAt,
         replyCount  |-> item.snippet.totalReplyCount]

\* getVideoComments after the fetch
CommentsOf(body) ==
    LET items == ItemsOrEmpty(body)
    IN  IF \E k \in 1..Len(items) : ~Has(items[k].snippet, "topLevelComment")
        THEN Threw(TypeErrorMessage)
        ELSE Returned([k \in 1..Len(items) |-> CommentOf(items[k])])

(***************************************************************************)
(* Parser inputs: padding, a prefix, a body, a suffix, padding.            *)
(***************************************************************************)
Https ==
    <<"h","t","t","p","s",":","/","/","w","w","w",".">>
HttpsBare ==
    <<"h","t","t","p","s",":","/","/">>
SampleId ==
    <<"d","Q","w","4","w","9","W","g","X","c","Q">>
OtherId ==
    <<"a","_","B","-","c","0","D","1","e","2","F">>
SampleChannelId ==
    <<"U","C","B","J","y","c","s","m","d","u","v","Y","E","L","8","3","R","_","U","4","J","r","i","Q">>
SampleHandle ==
    <<"m","k","b","h","d">>
DottedHandle ==
    <<"m","k",".","b","h","d">>
ExampleHost ==
    <<"e","x","a","m","p","l","e",".","c","o","m","/","n","o","t","-">>
PlaylistPath ==
    <<"y","o","u","t","u","b","e",".","c","o","m","/","p","l","a","y","l","i","s","t","?","l","i","s","t","=">>
UserPath ==
    <<"y","o","u","t","u","b","e",".","c","o","m","/","u","s","e","r","/">>
ListParam ==
    <<"l","i","s","t","=","P","L","&">>
TrackSi ==
    <<"?","s","i","=","a","b">>
TrackT ==
    <<"&","t","=","1","0","s">>
AmpV ==
    <<"&","v","=">>
NestedU ==
    <<"?","u","=">>

Pad(n) == [k \in 1..n |-> " "]

Prefixes == {
    <<>>,
    Https \o LitWatch \o LitVEq,
    Https \o LitWatch \o ListParam \o LitVEq,
    Https \o LitWatch \o <<"\n">> \o LitVEq,
    HttpsBare \o LitYoutuBe,
    Https \o LitEmbed,
    Https \o LitShorts,
    Https \o LitLive,
    Https \o LitV,
    LitShorts,
    HttpsBare \o ExampleHost,
    Https \o PlaylistPath,
    Https \o LitChannel,
    Https \o LitAt,
    Https \o UserPath,
    <<"@">> }

Bodies == {
    <<>>,
    SampleId,
    OtherId,
    SubSeq(SampleId, 1, IdLen - 1),
    SampleId \o <<"Z">>,
    SubSeq(SampleId, 1, IdLen - 1) \o <<"!">>,
    SampleChannelId,
    SampleHandle,
    DottedHandle }

Suffixes == {
    <<>>,
    TrackSi,
    TrackT,
    AmpV \o OtherId,
    NestedU \o LitYoutuBe \o OtherId }

Inputs ==
    {Pad(l) \o pre \o body \o suf \o Pad(r) :
        l \in 0..MaxPad, r \in 0..MaxPad,
        pre \in Prefixes, body \in Bodies, suf \in Suffixes}

(***************************************************************************)
(* Initial values of the three groups of variables.                        *)
(***************************************************************************)
NotParsed == [fn |-> "none", out |-> Null]
NoData == [kind |-> "none"]
NotMapped == [fn |-> "none"]
Idle == [pc |-> "idle", op |-> "", args |-> <<>>, payload |-> <<>>]
Env == [YOUTUBE_API_KEY |-> "secret"]

ParserIdle == input = <<>> /\ parsed = NotParsed
MapperIdle == data = NoData /\ mapped = NotMapped
ServerIdle ==
    /\ inv = [i \in 1..MaxInv |-> Idle]
    /\ requests = [i \in 1..MaxInv |-> <<>>]
    /\ fetches = [i \in 1..MaxInv |-> <<>>]
    /\ upstream = {}
    /\ captions = {}
    /\ env = Env

(***************************************************************************)
(* The parser functions applied to an input.                               *)
(***************************************************************************)
InitParse ==
    /\ input \in Inputs
    /\ parsed = NotParsed
    /\ MapperIdle
    /\ ServerIdle

ParseVideo ==
    /\ parsed = NotParsed
    /\ parsed' = [fn |-> "extractVideoId", out |-> extractVideoId(input)]
    /\ UNCHANGED <<input, data, mapped, inv, requests, fetches, upstream, captions, env>>

ParseChannel ==
    /\ parsed = NotParsed
    /\ parsed' = [fn |-> "extractChannelIdentifier", out |-> extractChannelIdentifier(input)]
    /\ UNCHANGED <<input, data, mapped, inv, requests, fetches, upstream, captions, env>>

NextParse == ParseVideo \/ ParseChannel

SpecParse == InitParse /\ [][NextParse]_vars

(***************************************************************************)
(* Upstream JSON bodies: every subset of the optional properties present.  *)
(***************************************************************************)
EmptyObject == [f \in {} |-> ""]

\* thumbnails without high, high without url, and the full chain
ThumbnailObjects == {
    EmptyObject,
    [high |-> EmptyObject],
    [high |-> [url |-> "https://i.ytimg.com/hq.jpg"]] }

FullVideoSnippet(th) == [
    title |-> "Title", description |-> "Description", channelTitle |-> "Channel",
    channelId |-> "UC1", publishedAt |-> "2009-10-25", categoryId |-> "10",
    tags |-> <<"music">>, thumbnails |-> th ]
VideoSnippetRequired ==
    {"title", "description", "channelTitle", "channelId", "publishedAt", "categoryId"}
VideoSnippetOptional == {"tags", "thumbnails"}
FullVideoStatistics == [viewCount |-> "10", likeCount |-> "3", commentCount |-> "1"]

VideoItem(keepS, keepT, th) == [
    snippet |-> Restrict(FullVideoSnippet(th), VideoSnippetRequired \cup keepS),
    statistics |-> Restrict(FullVideoStatistics, keepT),
    contentDetails |-> [duration |-> "PT3M33S"] ]
FullVideoItem ==
    VideoItem(VideoSnippetOptional, DOMAIN FullVideoStatistics,
              [high |-> [url |-> "https://i.ytimg.com/hq.jpg"]])
VideoItems ==
    {VideoItem(keepS, keepT, th) :
        keepS \in SUBSET VideoSnippetOptional,
        keepT \in SUBSET DOMAIN FullVideoStatistics,
        th \in ThumbnailObjects}
\* an item that lacks the statistics object altogether
VideoItemNoStatistics == Restrict(FullVideoItem, {"snippet", "contentDetails"})

FullChannelSnippet(th) == [
    title |-> "Title", description |-> "Description", publishedAt |-> "2008-03-21",
    customUrl |-> "@mkbhd", country |-> "US", thumbnails |-> th ]
ChannelSnippetRequired == {"title", "description", "publishedAt"}
ChannelSnippetOptional == {"customUrl", "country", "thumbnails"}
FullChannelStatistics == [subscriberCount |-> "100", videoCount |-> "7", viewCount |-> "900"]

ChannelItem(keepS, keepT, th) == [
    id |-> "UC1",
    snippet |-> Restrict(FullChannelSnippet(th), ChannelSnippetRequired \cup keepS),
    statistics |-> Restrict(FullChannelStatistics, keepT) ]
FullChannelItem ==
    ChannelItem(ChannelSnippetOptional, DOMAIN FullChannelStatistics,
                [high |-> [url |-> "https://i.ytimg.com/hq.jpg"]])
ChannelItems ==
    {ChannelItem(keepS, keepT, th) :
        keepS \in SUBSET ChannelSnippetOptional,
        keepT \in SUBSET DOMAIN FullChannelStatistics,
        th \in ThumbnailObjects}
ChannelItemNoStatistics == Restrict(FullChannelItem, {"id", "snippet"})

FullSearchSnippet(th) == [
    title |-> "Title", description |-> "Description", channelTitle |-> "Channel",
    publishedAt |-> "2009-10-25", thumbnails |-> th ]
SearchItem(keepS, th) == [
    id |-> [videoId |-> "dQw4w9WgXcQ"],
    snippet |-> Restrict(FullSearchSnippet(th),
                         {"title", "description", "channelTitle", "publishedAt"} \cup keepS) ]
FullSearchItem == SearchItem({"thumbnails"}, [high |-> [url |-> "https://i.ytimg.com/hq.jpg"]])
SearchItems ==
    {SearchItem(keepS, th) : keepS \in SUBSET {"thumbnails"}, th \in ThumbnailObjects}

FullCommentItem == [
    snippet |-> [
        topLevelComment |-> [snippet |-> [
            authorDisplayName |-> "Author", textDisplay |-> "Text",
            likeCount |-> 4, publishedAt |-> "2021-01-01" ]],
        totalReplyCount |-> 2 ] ]
\* an item that lacks the top-level comment
CommentItemNoTop == [snippet |-> [totalReplyCount |-> 0]]
CommentItems == {FullCommentItem, CommentItemNoTop}

SeqsUpTo(S, n) == UNION {[1..k -> S] : k \in 0..n}
Copies(x, n) == [k \in 1..n |-> x]

\* bodies whose first item varies, followed by full items
BodiesFirst(firsts, full) ==
    {EmptyObject, [items |-> <<>>]} \cup
    {[items |-> <<first>> \o Copies(full, n)] : first \in firsts, n \in 0..(MaxItems - 1)}
\* bodies whose every item varies
BodiesAll(items) ==
    {EmptyObject} \cup {[items |-> q] : q \in SeqsUpTo(items, MaxItems)}

MapperData ==
    {[endpoint |-> "videos", body |-> b] :
        b \in BodiesFirst(VideoItems \cup {VideoItemNoStatistics}, FullVideoItem)} \cup
    {[endpoint |-> "channels", body |-> b] :
        b \in BodiesFirst(ChannelItems \cup {ChannelItemNoStatistics}, FullChannelItem)} \cup
    {[endpoint |-> "search", body |-> b] : b \in BodiesAll(SearchItems)} \cup
    {[endpoint |-> "commentThreads", body |-> b] : b \in BodiesAll(CommentItems)}

(***************************************************************************)
(* The mappers applied to an upstream body.                                *)
(***************************************************************************)
InitMap ==
    /\ data \in MapperData
    /\ mapped = NotMapped
    /\ ParserIdle
    /\ ServerIdle

MapWith(endpoint, fn, result) ==
    /\ mapped = NotMapped
    /\ data.endpoint = endpoint
    /\ mapped' = [fn |-> fn, result |-> result]
    /\ UNCHANGED <<input, parsed, data, inv, requests, fetches, upstream, captions, env>>

MapVideo == MapWith("videos", "getVideoDetails", VideoDetailsOf(data.body))
MapSearch == MapWith("search", "searchVideos", SearchResultsOf(data.body))
MapChannel == MapWith("channels", "getChannelInfo", ChannelInfoOf(data.body))
MapComments == MapWith("commentThreads", "getVideoComments", CommentsOf(data.body))

NextMap == MapVideo \/ MapSearch \/ MapChannel \/ MapComments

SpecMap == InitMap /\ [][NextMap]_vars

(***************************************************************************)
(* API client.                                                             *)
(***************************************************************************)
YOUTUBE_API_BASE == "https://www.googleapis.com/youtube/v3"

DigitChar(d) == <<"0","1","2","3","4","5","6","7","8","9">>[d + 1]

\* String(n) for an integer n
RECURSIVE NumberToString(_)
NumberToString(n) ==
    IF n < 0 THEN <<"-">> \o NumberToString(-n)
    ELSE IF n < 10 THEN <<DigitChar(n)>>
    ELSE NumberToString(n \div 10) \o <<DigitChar(n % 10)>>

\* The URL youtubeApiFetch builds: the key is set first, then every entry of
\* params.
ApiUrl(endpoint, params, apiKey) ==
    [base |-> YOUTUBE_API_BASE,
     endpoint |-> endpoint,
     query |-> [k \in {"key"} \cup DOMAIN params |->
                  IF k \in DOMAIN params THEN params[k] ELSE apiKey]]

\* What the awaited fetch can settle with: a rejection, or a response with a
\* status, a body text and, when the text is JSON, the parsed body.
FetchRejected == [kind |-> "rejected", status |-> 0, text |-> "", json |-> <<>>]
Response(status, text, json) ==
    [kind |-> "response", status |-> status, text |-> text, json |-> json]
\* Response.ok
ResOk(res) == res.status \in 200..299

\* youtubeApiFetch that never looks at res.ok
youtubeApiFetchUnchecked(res) ==
    IF res.kind = "rejected" THEN Threw(<<"fetch failed">>)
    ELSE IF res.json = <<>> THEN Threw(<<"Unexpected token in JSON">>)
    ELSE Returned(res.json[1])

\* youtubeApiFetch after the awaited fetch settled with res
youtubeApiFetch(res) ==
    IF res.kind = "rejected" THEN Threw(<<"fetch failed">>)
    ELSE IF ~ResOk(res)
    THEN Threw(<<"YouTube API error (", res.status, "): ", res.text>>)
    ELSE IF res.json = <<>> THEN Threw(<<"Unexpected token in JSON">>)
    ELSE Returned(res.json[1])

\* f applied to what youtubeApiFetch returned, its failure passed on
Then(fetched, mappedValue) == IF fetched.threw THEN fetched ELSE mappedValue

getVideoDetailsRequest(videoId, apiKey) ==
    ApiUrl("videos", [part |-> "snippet,statistics,contentDetails", id |-> videoId], apiKey)
getVideoDetails(res) ==
    LET fetched == youtubeApiFetch(res)
    IN  Then(fetched, VideoDetailsOf(fetched.value))

searchVideosRequest(query, apiKey, maxResults) ==
    ApiUrl("search",
           [part |-> "snippet", q |-> query, type |-> "video",
            maxResults |-> NumberToString(maxResults)],
           apiKey)
searchVideos(res) ==
    LET fetched == youtubeApiFetch(res)
    IN  Then(fetched, SearchResultsOf(fetched.value))

getChannelInfoRequest(identifier, apiKey) ==
    ApiUrl("channels",
           IF identifier.type = "id"
           THEN [part |-> "snippet,statistics", id |-> identifier.value]
           ELSE IF identifier.type = "handle"
           THEN [part |-> "snippet,statistics", forHandle |-> identifier.value]
           ELSE [part |-> "snippet,statistics", forUsername |-> identifier.value],
           apiKey)
getChannelInfo(res) ==
    LET fetched == youtubeApiFetch(res)
    IN  Then(fetched, ChannelInfoOf(fetched.value))

getVideoCommentsRequest(videoId, apiKey, maxResults) ==
    ApiUrl("commentThreads",
           [part |-> "snippet", videoId |-> videoId,
            maxResults |-> NumberToString(maxResults),
            order |-> "relevance", textFormat |-> "plainText"],
           apiKey)
getVideoComments(res) ==
    LET fetched == youtubeApiFetch(res)
    IN  Then(fetched, CommentsOf(fetched.value))

(***************************************************************************)
(* Tool handlers. An invocation is idle, rejected by the tool's argument   *)
(* schema before its handler runs, awaiting the network, or done with the  *)
(* payload its handler returned.                                           *)
(***************************************************************************)
SearchMin == 1
SearchMax == 25
SearchDefault == 5
CommentsMin == 1
CommentsMax == 100
CommentsDefault == 20

Tools == {"get_transcript", "get_video_details", "search_videos",
          "get_channel_details", "get_video_comments"}

\* the text each handler's catch block puts before the error message
CatchPrefix == [
    get_transcript      |-> "Error fetching transcript: ",
    get_video_details   |-> "Error fetching video details: ",
    search_videos       |-> "Error searching videos: ",
    get_channel_details |-> "Error fetching channel info: ",
    get_video_comments  |-> "Error fetching comments: " ]

NoVideoIdText == "Error: Could not extract a valid video ID from the provided URL."
NoChannelText == "Error: Could not parse channel identifier."
NoTranscriptText == "No transcript content found."

\* A payload's text: a fixed or plain string, or a catch prefix and the
\* error's message, or JSON.stringify of a result.
TextPayload(isError, plain) ==
    [isError |-> isError, text |-> [plain |-> plain, prefix |-> "", error |-> <<>>, json |-> <<>>]]
JsonPayload(value) ==
    [isError |-> FALSE, text |-> [plain |-> "", prefix |-> "", error |-> <<>>, json |-> <<value>>]]
ErrorPayload(prefix, message) ==
    [isError |-> TRUE, text |-> [plain |-> "", prefix |-> prefix, error |-> message, json |-> <<>>]]

\* !videoId
Falsy(option) == option = Null \/ option[1] = <<>>

\* z.number().min(lo).max(hi).optional()
OptionalNumberAccepts(args, lo, hi) ==
    ~Has(args, "maxResults") \/ (args.maxResults >= lo /\ args.maxResults <= hi)

\* a schema that lost its .max()
SearchSchemaWithoutMax(args) ==
    ~Has(args, "maxResults") \/ args.maxResults >= SearchMin

SearchSchemaAccepts(args) == OptionalNumberAccepts(args, SearchMin, SearchMax)
CommentsSchemaAccepts(args) == OptionalNumberAccepts(args, CommentsMin, CommentsMax)

Invocation(pc, op, args, payload) == [pc |-> pc, op |-> op, args |-> args, payload |-> payload]

\* a handler without its try/catch: a failure leaves the handler as a throw
Uncaught(op, result, success) ==
    IF result.threw
    THEN [pc |-> "threw", payload |-> <<>>]
    ELSE [pc |-> "done", payload |-> <<success>>]

\* the try/catch of a handler around an awaited result
Caught(op, result, success) ==
    [pc |-> "done",
     payload |-> <<IF result.threw THEN ErrorPayload(CatchPrefix[op], result.message)
                   ELSE success>>]

\* invocations are numbered in the order they start
CanStart(i) ==
    /\ inv[i].pc = "idle"
    /\ IF i = 1 THEN TRUE ELSE inv[i - 1].pc # "idle"

\* the handler returns at once with payload
ReturnsAtOnce(i, op, args, payload) ==
    /\ inv' = [inv EXCEPT ![i] = Invocation("done", op, args, <<payload>>)]
    /\ UNCHANGED <<requests, fetches>>

\* the host refuses the arguments, the handler does not run
Refused(i, op, args) ==
    /\ inv' = [inv EXCEPT ![i] = Invocation("rejected", op, args, <<>>)]
    /\ UNCHANGED <<requests, fetches>>

\* the handler issues the GET and suspends
Sends(i, op, args, request) ==
    /\ inv' = [inv EXCEPT ![i] = Invocation("await", op, args, <<>>)]
    /\ requests' = [requests EXCEPT ![i] = Append(@, request)]
    /\ UNCHANGED fetches

\* get_video_details without the early return on a null video ID
CallGetVideoDetailsUnguarded(i, args) ==
    /\ CanStart(i)
    /\ LET videoId == extractVideoId(args.url)
       IN  Sends(i, "get_video_details", args,
                 getVideoDetailsRequest(IF videoId = Null THEN <<>> ELSE videoId[1],
                                        env.YOUTUBE_API_KEY))
    /\ UNCHANGED <<input, parsed, data, mapped, upstream, captions, env>>

CallGetTranscript(i, args) ==
    /\ CanStart(i)
    /\ LET videoId == extractVideoId(args.url)
       IN  IF Falsy(videoId)
           THEN ReturnsAtOnce(i, "get_transcript", args, TextPayload(TRUE, NoVideoIdText))
           ELSE /\ inv' = [inv EXCEPT ![i] = Invocation("await", "get_transcript", args, <<>>)]
                /\ fetches' = [fetches EXCEPT ![i] =
                       Append(@, [videoId |-> videoId[1],
                                  lang |-> Coalesce(args, "language", "en")])]
                /\ UNCHANGED requests
    /\ UNCHANGED <<input, parsed, data, mapped, upstream, captions, env>>

CallGetVideoDetails(i, args) ==
    /\ CanStart(i)
    /\ LET videoId == extractVideoId(args.url)
       IN  IF Falsy(videoId)
           THEN ReturnsAtOnce(i, "get_video_details", args, TextPayload(TRUE, NoVideoIdText))
           ELSE Sends(i, "get_video_details", args,
                      getVideoDetailsRequest(videoId[1], env.YOUTUBE_API_KEY))
    /\ UNCHANGED <<input, parsed, data, mapped, upstream, captions, env>>

\* search_videos whose default page size grows with every call served
CallSearchVideosCounting(i, args) ==
    /\ CanStart(i)
    /\ IF ~SearchSchemaAccepts(args) THEN Refused(i, "search_videos", args)
       ELSE Sends(i, "search_videos", args,
                  searchVideosRequest(args.query, env.YOUTUBE_API_KEY,
                                      Coalesce(args, "maxResults", SearchDefault + i - 1)))
    /\ UNCHANGED <<input, parsed, data, mapped, upstream, captions, env>>

CallSearchVideos(i, args) ==
    /\ CanStart(i)
    /\ IF ~SearchSchemaAccepts(args) THEN Refused(i, "search_videos", args)
       ELSE Sends(i, "search_videos", args,
                  searchVideosRequest(args.query, env.YOUTUBE_API_KEY,
                                      Coalesce(args, "maxResults", SearchDefault)))
    /\ UNCHANGED <<input, parsed, data, mapped, upstream, captions, env>>

CallGetChannelDetails(i, args) ==
    /\ CanStart(i)
    /\ LET identifier == extractChannelIdentifier(args.channel)
       IN  IF identifier = Null
           THEN ReturnsAtOnce(i, "get_channel_details", args, TextPayload(TRUE, NoChannelText))
           ELSE Sends(i, "get_channel_details", args,
                      getChannelInfoRequest(identifier[1], env.YOUTUBE_API_KEY))
    /\ UNCHANGED <<input, parsed, data, mapped, upstream, captions, env>>

CallGetVideoComments(i, args) ==
    /\ CanStart(i)
    /\ IF ~CommentsSchemaAccepts(args) THEN Refused(i, "get_video_comments", args)
       ELSE LET videoId == extractVideoId(args.url)
            IN  IF Falsy(videoId)
                THEN ReturnsAtOnce(i, "get_video_comments", args,
                                   TextPayload(TRUE, NoVideoIdText))
                ELSE Sends(i, "get_video_comments", args,
                           getVideoCommentsRequest(videoId[1], env.YOUTUBE_API_KEY,
                                                   Coalesce(args, "maxResults", CommentsDefault)))
    /\ UNCHANGED <<input, parsed, data, mapped, upstream, captions, env>>

(***************************************************************************)
(* The upstream API and the captions source. Each answers a request the    *)
(* same way every time it is asked: the answer given to a request is       *)
(* remembered and given again.                                             *)
(***************************************************************************)
\* Every endpoint can answer 403, or 200 with items absent, empty or holding
\* one full item; the transport failure, the malformed body and the items
\* that lack a nested object are each tried on one endpoint.
UpstreamBodies(endpoint) ==
    {EmptyObject, [items |-> <<>>]} \cup
    CASE endpoint = "videos" ->
            {[items |-> <<FullVideoItem>>], [items |-> <<VideoItemNoStatistics>>]}
      [] endpoint = "search" -> {[items |-> <<FullSearchItem>>]}
      [] endpoint = "channels" -> {[items |-> <<FullChannelItem>>]}
      [] endpoint = "commentThreads" ->
            {[items |-> <<FullCommentItem>>], [items |-> <<CommentItemNoTop>>]}

Outcomes(endpoint) ==
    {Response(403, "quotaExceeded", <<[error |-> "quotaExceeded"]>>)} \cup
    {Response(200, "", <<b>>) : b \in UpstreamBodies(endpoint)} \cup
    (IF endpoint = "videos" THEN {FetchRejected, Response(200, "<html>", <<>>)} ELSE {})

AllOutcomes == UNION {Outcomes(e) : e \in {"videos", "search", "channels", "commentThreads"}}

CaptionOutcomes == {
    Threw(<<"Transcript is disabled on this video">>),
    Returned(<<>>),
    Returned(<<[text |-> ""]>>),
    Returned(<<[text |-> ""], [text |-> ""]>>),
    Returned(<<[text |-> "never"], [text |-> "gonna"]>>) }

\* the GET invocation i is waiting for
Pending(i) == requests[i][Len(requests[i])]
PendingFetch(i) == fetches[i][Len(fetches[i])]

\* the awaited fetch of invocation i settles with res
Settles(i, res) ==
    /\ res \in Outcomes(Pending(i).endpoint)
    /\ \A m \in upstream : m.request = Pending(i) => m.response = res
    /\ upstream' = upstream \cup {[request |-> Pending(i), response |-> res]}
    /\ UNCHANGED captions

Finish(invocation, end) == [invocation EXCEPT !.pc = end.pc, !.payload = end.payload]

\* the join with its separator lost: join("")
RECURSIVE JoinTextsNoSeparator(_)
JoinTextsNoSeparator(items) ==
    IF Len(items) = 0 THEN ""
    ELSE items[1].text \o JoinTextsNoSeparator(Tail(items))

\* items.map((i) => i.text).join(" ")
RECURSIVE JoinTexts(_)
JoinTexts(items) ==
    IF Len(items) = 0 THEN ""
    ELSE IF Len(items) = 1 THEN items[1].text
    ELSE items[1].text \o " " \o JoinTexts(Tail(items))

ReturnTranscript(i, out) ==
    /\ inv[i].pc = "await"
    /\ inv[i].op = "get_transcript"
    /\ out \in CaptionOutcomes
    /\ \A m \in captions : m.request = PendingFetch(i) => m.response = out
    /\ captions' = captions \cup {[request |-> PendingFetch(i), response |-> out]}
    /\ LET transcript == JoinTexts(out.value)
       IN  inv' = [inv EXCEPT ![i] = Finish(@,
                Caught("get_transcript", out,
                       TextPayload(FALSE, IF transcript = "" THEN NoTranscriptText
                                          ELSE transcript)))]
    /\ UNCHANGED <<input, parsed, data, mapped, requests, fetches, upstream, env>>

ReturnVideoDetails(i, res) ==
    /\ inv[i].pc = "await"
    /\ inv[i].op = "get_video_details"
    /\ Settles(i, res)
    /\ LET details == getVideoDetails(res)
       IN  inv' = [inv EXCEPT ![i] = Finish(@,
                Caught("get_video_details", details, JsonPayload(details.value)))]
    /\ UNCHANGED <<input, parsed, data, mapped, requests, fetches, env>>

ReturnSearchVideos(i, res) ==
    /\ inv[i].pc = "await"
    /\ inv[i].op = "search_videos"
    /\ Settles(i, res)
    /\ LET results == searchVideos(res)
       IN  inv' = [inv EXCEPT ![i] = Finish(@,
                Caught("search_videos", results, JsonPayload(results.value)))]
    /\ UNCHANGED <<input, parsed, data, mapped, requests, fetches, env>>

ReturnChannelDetails(i, res) ==
    /\ inv[i].pc = "await"
    /\ inv[i].op = "get_channel_details"
    /\ Settles(i, res)
    /\ LET info == getChannelInfo(res)
       IN  inv' = [inv EXCEPT ![i] = Finish(@,
                Caught("get_channel_details", info, JsonPayload(info.value)))]
    /\ UNCHANGED <<input, parsed, data, mapped, requests, fetches, env>>

ReturnVideoComments(i, res) ==
    /\ inv[i].pc = "await"
    /\ inv[i].op = "get_video_comments"
    /\ Settles(i, res)
    /\ LET comments == getVideoComments(res)
       IN  inv' = [inv EXCEPT ![i] = Finish(@,
                Caught("get_video_comments", comments, JsonPayload(comments.value)))]
    /\ UNCHANGED <<input, parsed, data, mapped, requests, fetches, env>>

(***************************************************************************)
(* The arguments the handlers are called with.                             *)
(***************************************************************************)
VideoUrls == {Https \o LitWatch \o LitVEq \o SampleId, HttpsBare \o ExampleHost}
Channels == {<<"@">> \o SampleHandle, SampleChannelId, SampleHandle}

TranscriptArgs ==
    {[url |-> u] : u \in VideoUrls} \cup
    {[url |-> Https \o LitWatch \o LitVEq \o SampleId, language |-> "es"]}
DetailsArgs == {[url |-> u] : u \in VideoUrls}
SearchArgs ==
    {[query |-> "cats"]} \cup
    {[query |-> "cats", maxResults |-> n] : n \in {0, 25, 26, 30}}
ChannelArgs == {[channel |-> c] : c \in Channels}
CommentsArgs ==
    {[url |-> u] : u \in VideoUrls} \cup
    {[url |-> Https \o LitWatch \o LitVEq \o SampleId, maxResults |-> n] : n \in {0, 100, 101}}

Init == ParserIdle /\ MapperIdle /\ ServerIdle

Next ==
    \E i \in 1..MaxInv :
        \/ \E args \in TranscriptArgs : CallGetTranscript(i, args)
        \/ \E args \in DetailsArgs : CallGetVideoDetails(i, args)
        \/ \E args \in SearchArgs : CallSearchVideos(i, args)
        \/ \E args \in ChannelArgs : CallGetChannelDetails(i, args)
        \/ \E args \in CommentsArgs : CallGetVideoComments(i, args)
        \/ \E out \in CaptionOutcomes : ReturnTranscript(i, out)
        \/ \E res \in AllOutcomes : ReturnVideoDetails(i, res)
        \/ \E res \in AllOutcomes : ReturnSearchVideos(i, res)
        \/ \E res \in AllOutcomes : ReturnChannelDetails(i, res)
        \/ \E res \in AllOutcomes : ReturnVideoComments(i, res)

Spec == Init /\ [][Next]_vars

(***************************************************************************)
(* Properties of the identifier parser.                                    *)
(***************************************************************************)
\* s holds the literal lit followed at once by IdLen characters of IdAlphabet
HasIdAfter(s, lit) ==
    \E i \in 1..Len(s) :
        /\ StartsAt(s, i, lit)
        /\ i + Len(lit) + IdLen - 1 <= Len(s)
        /\ \A k \in 0..(IdLen - 1) : s[i + Len(lit) + k] \in IdAlphabet

\* s holds "youtube.com/watch?", later on the same line "v=" and an ID
HasWatchId(s) ==
    \E i \in 1..Len(s) : \E j \in i..Len(s) :
        /\ StartsAt(s, i, LitWatch)
        /\ j >= i + Len(LitWatch)
        /\ \A x \in (i + Len(LitWatch))..(j - 1) : s[x] \notin LineTerminator
        /\ StartsAt(s, j, LitVEq)
        /\ j + 1 + IdLen <= Len(s)
        /\ \A k \in 1..IdLen : s[j + 1 + k] \in IdAlphabet

MatchesAShape(s) ==
    \/ HasWatchId(s)
    \/ \E lit \in {LitYoutuBe, LitEmbed, LitShorts, LitLive, LitV} : HasIdAfter(s, lit)

\* the six URL formats the README lists, up to the ID
SupportedShapes == {
    Https \o LitWatch \o LitVEq,
    HttpsBare \o LitYoutuBe,
    Https \o LitEmbed,
    Https \o LitShorts,
    Https \o LitLive,
    Https \o LitV }

IsId(s) == Len(s) = IdLen /\ \A k \in 1..Len(s) : s[k] \in IdAlphabet

\* C6: extractVideoId returns null or an 11-character ID and never anything
\* else; it returns the ID itself for a raw ID, the embedded ID for each of
\* the six supported URL shapes (with or without a tracking parameter after
\* the ID), and null for every input that is neither a raw ID nor holds one
\* of the six shapes.
VideoIdContract ==
    parsed.fn = "extractVideoId" =>
        LET t == Trim(input)
        IN  /\ parsed.out = Null \/ (Len(parsed.out) = 1 /\ IsId(parsed.out[1]))
            /\ IsId(t) => parsed.out = Some(t)
            /\ \A pre \in SupportedShapes, id \in {SampleId, OtherId},
                  suf \in {<<>>, TrackSi, TrackT} :
                    t = pre \o id \o suf => parsed.out = Some(id)
            /\ (~IsId(t) /\ ~MatchesAShape(t)) => parsed.out = Null

\* C6 witness: a /live/ URL with a tracking parameter, padded with
\* whitespace, was parsed to its ID.
VideoIdFromLiveUrl ==
    /\ parsed.fn = "extractVideoId"
    /\ input = <<" ">> \o Https \o LitLive \o SampleId \o TrackSi
    /\ parsed.out = Some(SampleId)

\* the first two URL rules of extractChannelIdentifier, stated on the text
HasChannelUrl(s) ==
    \E i \in 1..Len(s) :
        /\ StartsAt(s, i, LitChannel)
        /\ i + Len(LitChannel) <= Len(s)
        /\ s[i + Len(LitChannel)] \in IdAlphabet

HasHandleUrl(s) ==
    \E i \in 1..Len(s) :
        /\ StartsAt(s, i, LitAt)
        /\ i + Len(LitAt) <= Len(s)
        /\ s[i + Len(LitAt)] \in HandleAlphabet

\* C4: extractChannelIdentifier applies channel URL -> id, handle URL ->
\* handle with "@" + captured, leading "@" -> handle, 24 characters starting
\* "UC" -> id, in that order, and returns username with the trimmed input
\* for every input that matches none of the four.
ChannelRulesThenUsername ==
    parsed.fn = "extractChannelIdentifier" =>
        LET t == Trim(input)
            out == parsed.out[1]
        IN  /\ Len(parsed.out) = 1
            /\ HasChannelUrl(t) => out.type = "id"
            /\ (~HasChannelUrl(t) /\ HasHandleUrl(t)) =>
                   out.type = "handle" /\ out.value[1] = "@"
            /\ (~HasChannelUrl(t) /\ ~HasHandleUrl(t) /\ Len(t) > 0 /\ t[1] = "@") =>
                   out = [type |-> "handle", value |-> t]
            /\ (~HasChannelUrl(t) /\ ~HasHandleUrl(t) /\ ~(Len(t) > 0 /\ t[1] = "@")
                  /\ Len(t) = ChannelIdLen /\ StartsAt(t, 1, LitUC)) =>
                   out = [type |-> "id", value |-> t]
            /\ (~HasChannelUrl(t) /\ ~HasHandleUrl(t) /\ ~(Len(t) > 0 /\ t[1] = "@")
                  /\ ~(Len(t) = ChannelIdLen /\ StartsAt(t, 1, LitUC))) =>
                   out = [type |-> "username", value |-> t]

(***************************************************************************)
(* Properties of the response mappers.                                     *)
(***************************************************************************)
UrlPresent(snippet) ==
    /\ "thumbnails" \in DOMAIN snippet
    /\ "high" \in DOMAIN snippet.thumbnails
    /\ "url" \in DOMAIN snippet.thumbnails.high

VideoStatisticsDefaults == [viewCount |-> "N/A", likeCount |-> "N/A", commentCount |-> "N/A"]
ChannelStatisticsDefaults == [subscriberCount |-> "hidden", videoCount |-> "0", viewCount |-> "0"]
ChannelSnippetDefaults == [customUrl |-> "", country |-> "N/A"]

\* the body has a first item that carries its statistics object
HasFirstItem(body) ==
    /\ "items" \in DOMAIN body
    /\ Len(body.items) > 0
    /\ "statistics" \in DOMAIN body.items[1]

Slots == 1..MaxInv
VideoTools == {"get_transcript", "get_video_details", "get_video_comments"}
ApiTools == {"get_video_details", "search_videos", "get_channel_details", "get_video_comments"}

\* the handler of invocation i has run (its arguments passed the schema)
Ran(i) == inv[i].pc \in {"await", "done", "threw"}
Done(i) == inv[i].pc = "done"
\* the response the GET of a finished invocation settled with
ResponseOf(i) == (CHOOSE m \in upstream : m.request = requests[i][1]).response
Settled(i) == Done(i) /\ inv[i].op \in ApiTools /\ Len(requests[i]) > 0

\* what the parsers return for each string the handlers are given
VideoIdOf == [u \in VideoUrls |-> extractVideoId(u)]
ChannelOf == [c \in Channels |-> extractChannelIdentifier(c)]

\* the parser returned absence for the string invocation i was given
ParserAbsent(i) ==
    \/ inv[i].op \in VideoTools /\ VideoIdOf[inv[i].args.url] = Null
    \/ inv[i].op = "get_channel_details" /\ ChannelOf[inv[i].args.channel] = Null

\* C1: when the parser returns absence, the invocation is over as soon as
\* its handler has run, with an error payload holding the fixed
\* could-not-extract text (no catch prefix, no upstream message), and it has
\* issued no upstream GET and no captions fetch.
ParseFailureShortCircuits ==
    \A i \in Slots :
        (Ran(i) /\ ParserAbsent(i)) =>
            /\ Done(i)
            /\ Len(inv[i].payload) = 1
            /\ inv[i].payload[1].isError
            /\ inv[i].payload[1].text.plain \in {NoVideoIdText, NoChannelText}
            /\ inv[i].payload[1].text.prefix = ""
            /\ inv[i].payload[1].text.error = <<>>
            /\ requests[i] = <<>>
            /\ fetches[i] = <<>>

\* C1 witness: get_video_details was called with a non-YouTube URL and is
\* done with the could-not-extract error, having sent nothing.
DetailsParseFailure ==
    \E i \in Slots :
        /\ inv[i].op = "get_video_details"
        /\ inv[i].args.url = HttpsBare \o ExampleHost
        /\ Done(i)
        /\ inv[i].payload = <<TextPayload(TRUE, NoVideoIdText)>>
        /\ requests[i] = <<>>

\* the number a string of decimal digits denotes, -1 for any other string
RECURSIVE DecimalValue(_)
DecimalValue(chars) ==
    IF chars = <<>> \/ \E k \in 1..Len(chars) : chars[k] \notin Digit THEN -1
    ELSE LET d == CHOOSE n \in 0..9 : DigitChar(n) = chars[Len(chars)]
         IN  IF Len(chars) = 1 THEN d
             ELSE 10 * DecimalValue(SubSeq(chars, 1, Len(chars) - 1)) + d

OutOfRange(args, lo, hi) ==
    "maxResults" \in DOMAIN args /\ (args.maxResults < lo \/ args.maxResults > hi)

\* C2: every search request sent carries a maxResults of 1..25 and every
\* commentThreads request one of 1..100; an invocation whose maxResults is
\* outside the range sends no request at all.
MaxResultsBounded ==
    \A i \in Slots :
        /\ \A k \in 1..Len(requests[i]) :
            /\ requests[i][k].endpoint = "search" =>
                 DecimalValue(requests[i][k].query.maxResults) \in 1..25
            /\ requests[i][k].endpoint = "commentThreads" =>
                 DecimalValue(requests[i][k].query.maxResults) \in 1..100
        /\ (inv[i].op = "search_videos" /\ OutOfRange(inv[i].args, 1, 25)) =>
               requests[i] = <<>>
        /\ (inv[i].op = "get_video_comments" /\ OutOfRange(inv[i].args, 1, 100)) =>
               requests[i] = <<>>

\* C2 witness: search_videos with maxResults = 30 was refused without a
\* request while search_videos with maxResults = 25 sent "25".
SearchThirtyRefused ==
    \E i, j \in Slots :
        /\ inv[i].op = "search_videos"
        /\ inv[i].args = [query |-> "cats", maxResults |-> 30]
        /\ inv[i].pc = "rejected"
        /\ requests[i] = <<>>
        /\ inv[j].op = "search_videos"
        /\ inv[j].args = [query |-> "cats", maxResults |-> 25]
        /\ Len(requests[j]) = 1
        /\ requests[j][1].query.maxResults = <<"2", "5">>

\* invocation i got a 2xx response whose JSON has no items or empty items
GotNoItems(i) ==
    /\ Settled(i)
    /\ ResponseOf(i).kind = "response"
    /\ ResponseOf(i).status \in 200..299
    /\ ResponseOf(i).json # <<>>
    /\ ("items" \notin DOMAIN ResponseOf(i).json[1] \/ ResponseOf(i).json[1].items = <<>>)

\* C3 as stated: on empty or absent items none of the four operations
\* returns a success payload.
EmptyItemsAlwaysFail ==
    \A i \in Slots : GotNoItems(i) => inv[i].payload[1].isError

\* C3 as amended: on empty or absent items get_video_details and
\* get_channel_details return an error payload with their not-found message
\* and no record; search_videos and get_video_comments return a success
\* payload holding the empty list.
EmptyItemsByOperation ==
    \A i \in Slots : GotNoItems(i) =>
        LET p == inv[i].payload[1]
        IN  /\ inv[i].op = "get_video_details" =>
                p = ErrorPayload(CatchPrefix[inv[i].op], <<"Video not found or is private.">>)
            /\ inv[i].op = "get_channel_details" =>
                p = ErrorPayload(CatchPrefix[inv[i].op], <<"Channel not found.">>)
            /\ inv[i].op \in {"search_videos", "get_video_comments"} =>
                p = JsonPayload(<<>>)

\* C3 witness: search_videos got items: [] and returned the empty list as a
\* success.
SearchEmptySucceeds ==
    \E i \in Slots :
        /\ inv[i].op = "search_videos"
        /\ GotNoItems(i)
        /\ ResponseOf(i).json = <<[items |-> <<>>]>>
        /\ inv[i].payload = <<JsonPayload(<<>>)>>

\* the lookup parameters a channels request carries
LookupParams(request) == DOMAIN request.query \cap {"id", "forHandle", "forUsername"}

\* the string is no channel URL, no handle URL, no "@" handle and no
\* 24-character "UC" id
BareChannelString(t) ==
    /\ ~HasChannelUrl(t)
    /\ ~HasHandleUrl(t)
    /\ ~(Len(t) > 0 /\ t[1] = "@")
    /\ ~(Len(t) = ChannelIdLen /\ StartsAt(t, 1, LitUC))

\* C5: a channels request carries exactly one of id, forHandle and
\* forUsername, and a bare string is looked up through forUsername with the
\* trimmed string as its value.
ChannelLookupParameter ==
    \A i \in Slots :
        (inv[i].op = "get_channel_details" /\ Len(requests[i]) > 0) =>
            /\ Cardinality(LookupParams(requests[i][1])) = 1
            /\ BareChannelString(Trim(inv[i].args.channel)) =>
                 /\ LookupParams(requests[i][1]) = {"forUsername"}
                 /\ requests[i][1].query.forUsername = Trim(inv[i].args.channel)

\* C7: an invocation issues at most one GET (get_transcript none); when the
\* GET returned a non-2xx status the invocation ends with an error payload
\* whose message holds that status and the response's body text.
SingleGetAndStatusSurfaced ==
    \A i \in Slots :
        /\ Len(requests[i]) <= 1
        /\ inv[i].op = "get_transcript" => requests[i] = <<>>
        /\ (Settled(i) /\ ResponseOf(i).kind = "response"
              /\ ResponseOf(i).status \notin 200..299) =>
               /\ Len(inv[i].payload) = 1
               /\ inv[i].payload[1].isError
               /\ inv[i].payload[1].text.json = <<>>
               /\ inv[i].payload[1].text.prefix = CatchPrefix[inv[i].op]
               /\ inv[i].payload[1].text.error =
                    <<"YouTube API error (", ResponseOf(i).status, "): ", ResponseOf(i).text>>

\* C7 witness: get_video_comments got a 403 and returned the error payload
\* with 403 and the body, after one GET.
CommentsForbidden ==
    \E i \in Slots :
        /\ inv[i].op = "get_video_comments"
        /\ Settled(i)
        /\ Len(requests[i]) = 1
        /\ ResponseOf(i).status = 403
        /\ inv[i].payload =
             <<ErrorPayload("Error fetching comments: ",
                            <<"YouTube API error (", 403, "): ", "quotaExceeded">>)>>

\* some return step of invocation i is possible
CanReturn(i) ==
    \/ \E out \in CaptionOutcomes : ENABLED ReturnTranscript(i, out)
    \/ \E res \in AllOutcomes :
        \/ ENABLED ReturnVideoDetails(i, res)
        \/ ENABLED ReturnSearchVideos(i, res)
        \/ ENABLED ReturnChannelDetails(i, res)
        \/ ENABLED ReturnVideoComments(i, res)

\* C8 as stated, the part that fails: every error payload's message is
\* tagged with its operation.
ErrorsTaggedWithOperation ==
    \A i \in Slots :
        (Done(i) /\ inv[i].payload[1].isError) =>
            inv[i].payload[1].text.prefix = CatchPrefix[inv[i].op]

\* what a payload of a finished invocation looks like
PayloadShape(i) ==
    LET p == inv[i].payload[1]
    IN  IF p.isError
        THEN /\ p.text.json = <<>>
             /\ \/ /\ p.text.prefix = CatchPrefix[inv[i].op]
                   /\ p.text.error # <<>>
                   /\ p.text.plain = ""
                \/ /\ inv[i].op \in VideoTools
                   /\ ParserAbsent(i)
                   /\ p = TextPayload(TRUE, NoVideoIdText)
        ELSE /\ p.text.prefix = ""
             /\ p.text.error = <<>>
             /\ (p.text.json # <<>>) # (p.text.plain # "")

HandlerStates ==
    \A i \in Slots :
        /\ inv[i].pc \in {"idle", "rejected", "await", "done"}
        /\ Len(inv[i].payload) = (IF Done(i) THEN 1 ELSE 0)
        /\ Done(i) => PayloadShape(i)
        /\ inv[i].pc = "await" => CanReturn(i)

\* a step leaves every finished invocation, and every invocation but the one
\* that takes it, as it was
StepsAreLocal ==
    /\ \A j \in Slots : inv[j].pc \in {"done", "rejected"} => inv'[j] = inv[j]
    /\ \E i \in Slots : \A j \in Slots \ {i} :
          inv'[j] = inv[j] /\ requests'[j] = requests[j] /\ fetches'[j] = fetches[j]

\* C8 as amended: a handler never ends in a throw; an invocation holds no
\* payload until it is done and exactly one from then on, which never
\* changes; the payload is a success, or an error with the marker set and no
\* result in it, whose message carries the operation's prefix when a
\* failure was caught and is the fixed could-not-extract text when the video
\* ID parser returned absence; a waiting invocation can always return; and
\* no step changes another invocation.
HandlerBoundary == [](HandlerStates) /\ [][StepsAreLocal]_vars

\* C8 witness: one invocation is done with a caught mapper failure (the
\* TypeError of an item without topLevelComment) while another is done with
\* a success.
CaughtBesideSuccess ==
    \E i, j \in Slots :
        /\ inv[i].op = "get_video_comments"
        /\ Done(i)
        /\ inv[i].payload = <<ErrorPayload("Error fetching comments: ", TypeErrorMessage)>>
        /\ Done(j)
        /\ ~inv[j].payload[1].isError

CaptionsOf(i) == (CHOOSE m \in captions : m.request = fetches[i][1]).response
Transcribed(i) == Done(i) /\ inv[i].op = "get_transcript" /\ Len(fetches[i]) > 0

\* the texts of the first k fragments, in order, one space between
\* neighbours
RECURSIVE SpacedTexts(_, _)
SpacedTexts(items, k) ==
    IF k = 0 THEN ""
    ELSE IF k = 1 THEN items[1].text
    ELSE SpacedTexts(items, k - 1) \o " " \o items[k].text

AllTextsEmpty(items) == \A k \in 1..Len(items) : items[k].text = ""

\* C11 as stated, the part that fails: whenever the collaborator returns no
\* fragments or only empty-text fragments, the payload is the success "No
\* transcript content found.".
EmptyFragmentsMeanNoContent ==
    \A i \in Slots :
        (Transcribed(i) /\ ~CaptionsOf(i).threw /\ AllTextsEmpty(CaptionsOf(i).value)) =>
            inv[i].payload = <<TextPayload(FALSE, NoTranscriptText)>>

\* C11 as amended: get_transcript sends no upstream GET and at most one
\* captions fetch, for the parsed video ID with the given language or "en";
\* a collaborator failure gives the error payload with the collaborator's
\* message behind the handler's prefix; otherwise the payload is a success
\* holding the fragments' texts in order with one space between neighbours,
\* or "No transcript content found." when that string is empty (no
\* fragments, or one empty-text fragment; several empty-text fragments join
\* to spaces and are returned as they are).
TranscriptContract ==
    \A i \in Slots : inv[i].op = "get_transcript" =>
        /\ requests[i] = <<>>
        /\ Len(fetches[i]) <= 1
        /\ Ran(i) =>
             LET id == VideoIdOf[inv[i].args.url]
             IN  id # Null =>
                   fetches[i] = <<[videoId |-> id[1],
                                   lang |-> IF "language" \in DOMAIN inv[i].args
                                            THEN inv[i].args.language ELSE "en"]>>
        /\ Transcribed(i) =>
             LET out == CaptionsOf(i)
                 joined == SpacedTexts(out.value, Len(out.value))
             IN  IF out.threw
                 THEN inv[i].payload =
                        <<ErrorPayload("Error fetching transcript: ", out.message)>>
                 ELSE inv[i].payload =
                        <<TextPayload(FALSE, IF joined = "" THEN NoTranscriptText
                                             ELSE joined)>>

\* C11 witness: a transcript of two fragments was fetched in the default
\* language and returned joined by one space, beside one of a single empty
\* fragment reported as no content.
TranscriptJoined ==
    \E i, j \in Slots :
        /\ Transcribed(i)
        /\ fetches[i] = <<[videoId |-> SampleId, lang |-> "en"]>>
        /\ CaptionsOf(i) = Returned(<<[text |-> "never"], [text |-> "gonna"]>>)
        /\ inv[i].payload = <<TextPayload(FALSE, "never gonna")>>
        /\ Transcribed(j)
        /\ fetches[j] = <<[videoId |-> SampleId, lang |-> "es"]>>
        /\ CaptionsOf(j) = Returned(<<[text |-> ""]>>)
        /\ inv[j].payload = <<TextPayload(FALSE, NoTranscriptText)>>

\* the six shapes in the order of the pattern list, by their literal
ShapeOrder == <<LitWatch, LitYoutuBe, LitEmbed, LitShorts, LitLive, LitV>>

\* s holds shape k with id as the ID that follows its literal
ShapeHolds(k, s, id) ==
    IF k = 1
    THEN \E i \in 1..Len(s) : \E j \in i..Len(s) :
            /\ StartsAt(s, i, LitWatch)
            /\ j >= i + Len(LitWatch)
            /\ \A x \in (i + Len(LitWatch))..(j - 1) : s[x] \notin LineTerminator
            /\ StartsAt(s, j, LitVEq \o id)
    ELSE \E i \in 1..Len(s) : StartsAt(s, i, ShapeOrder[k] \o id)

\* the shapes s holds with some ID
ShapesIn(s) ==
    {k \in 1..Len(ShapeOrder) :
        IF k = 1 THEN HasWatchId(s) ELSE HasIdAfter(s, ShapeOrder[k])}

\* the list of the first n patterns, last first
RECURSIVE Reversed(_, _)
Reversed(patterns, n) ==
    IF n = 0 THEN <<>> ELSE <<patterns[n]>> \o Reversed(patterns, n - 1)

\* C12 as stated: a raw ID is returned as it is, at most one of the six
\* patterns matches any input, and the result is the same with the pattern
\* list in another order (here: reversed).
PatternsExclusive ==
    parsed.fn = "extractVideoId" =>
        LET t == Trim(input)
        IN  /\ IsId(t) => parsed.out = Some(t)
            /\ Cardinality(ShapesIn(t)) <= 1
            /\ ~IsId(t) =>
                 parsed.out =
                   FirstPatternMatch(Reversed(VIDEO_ID_PATTERNS, Len(VIDEO_ID_PATTERNS)), t, 1)

\* C12 as amended: a raw ID is returned as it is and holds none of the six
\* shapes; any other input gives null when it holds no shape and otherwise
\* an ID that follows the literal of the first shape, in list order
\* watch?v=, youtu.be/, /embed/, /shorts/, /live/, /v/, among those it
\* holds. An input can hold several shapes, and then the order decides.
FirstShapeInOrderDecides ==
    parsed.fn = "extractVideoId" =>
        LET t == Trim(input)
            shapes == ShapesIn(t)
        IN  /\ IsId(t) => (parsed.out = Some(t) /\ shapes = {})
            /\ (~IsId(t) /\ shapes = {}) => parsed.out = Null
            /\ (~IsId(t) /\ shapes # {}) =>
                 /\ parsed.out # Null
                 /\ IsId(parsed.out[1])
                 /\ ShapeHolds(Min(shapes), t, parsed.out[1])

\* C12 witness: an /embed/ URL whose query holds a youtu.be/ link holds two
\* shapes and was parsed to the ID of the youtu.be/ link, the earlier
\* pattern, not to the ID after /embed/.
TwoShapesEarlierWins ==
    /\ parsed.fn = "extractVideoId"
    /\ input = Https \o LitEmbed \o SampleId \o NestedU \o LitYoutuBe \o OtherId
    /\ ShapesIn(input) = {2, 3}
    /\ parsed.out = Some(OtherId)

====
